---- MODULE Spec2Model ----
(***************************************************************************)
(* A model of package merkle (src/merkle/tree.go): a binary hash tree      *)
(* built by FIFO pairing over a padded list of leaves, its full            *)
(* verification (Verify), proof generation (Proof) and proof verification  *)
(* (VerifyProof).                                                          *)
(*                                                                         *)
(* Byte strings are sequences of naturals.  Atoms (>= 2) stand for the     *)
(* bytes of a caller's value; 0 and 1 delimit a digest.  sha512.Sum512 is  *)
(* modelled as a collision-free hash: Sum512(x) = <<0>> \o x \o <<1>>.     *)
(* Every digest is then a balanced word, so the concatenation of two       *)
(* digests decodes uniquely, as the concatenation of two 64-byte digests   *)
(* does.  The heap is a sequence of Node records; a pointer is an index    *)
(* into it and nil is 0.                                                   *)
(***************************************************************************)
EXTENDS Integers, Sequences, FiniteSets, TLC

VARIABLES
    values,     \* the [][]byte handed to NewTree
    status,     \* "init" before NewTree, then "built" or "panic"
    heap,       \* every Node allocated so far
    tree,       \* the Tree: [Root, Leaves]
    calls,      \* one frame per caller: the operation it runs and its locals
    verifies,   \* number of Verify calls started (bounded)
    corrupted   \* the node whose stored Hash was overwritten from outside, or nil

vars == <<values, status, heap, tree, calls, verifies, corrupted>>

-----------------------------------------------------------------------------
(* Bounds *)

MaxLen == 6          \* longest value sequence handed to NewTree (Spec)
MaxShortLen == 4     \* longest value sequence in the other specifications
MaxVerifies == 2     \* Verify calls per behaviour
NumCallers == 2      \* concurrent callers in the concurrent specification

-----------------------------------------------------------------------------
(* Data model *)

nil == 0
Leaf == 0
TreeNode == 1

Sum512(x) == <<0>> \o x \o <<1>>

BytesEqual(a, b) == a = b

A == <<2>>
B == <<3>>
Unused == <<4>>
\* a crafted 128-byte value: the concatenation of the digests of A and B
AB == Sum512(A) \o Sum512(B)

RECURSIVE SeqsOfLen(_)
SeqsOfLen(n) ==
    IF n = 0 THEN {<<>>}
    ELSE {Append(s, v) : s \in SeqsOfLen(n - 1), v \in {A, B}}

\* every sequence of A and B up to the length, and those continued by AB
Inputs(max) ==
    UNION {SeqsOfLen(n) : n \in 0..max}
      \cup UNION {{Append(s, AB) : s \in SeqsOfLen(n)} : n \in 0..(max - 1)}

NewNode(parent, left, right, typ, hash) ==
    [Parent |-> parent, Left |-> left, Right |-> right, Typ |-> typ, Hash |-> hash]

-----------------------------------------------------------------------------
(* root: the FIFO reduction, lines 75-99.  One loop iteration makes two    *)
(* writes to nodes that other callers can reach (left.Parent and           *)
(* right.Parent); each write is one step.  The new node is reachable by    *)
(* others only through those two fields.                                   *)

\* lines 77-92: take queue[0], queue[1], allocate the node, left.Parent = node
rootLinkLeft(queue, hp) ==
    LET left == queue[1]
        right == queue[2]
        h == Sum512(hp[left].Hash \o hp[right].Hash)
        node == Len(hp) + 1
        hp1 == Append(hp, NewNode(nil, left, right, TreeNode, h))
    IN [queue |-> SubSeq(queue, 3, Len(queue)),
        node |-> node,
        heap |-> [hp1 EXCEPT ![left].Parent = node]]

\* a slip: right.Parent is never set
rootLinkRightNoParent(queue, node, hp) ==
    [queue |-> Append(queue, node), node |-> nil, heap |-> hp]

\* lines 93-95: right.Parent = node, queue = append(queue, node)
rootLinkRight(queue, node, hp) ==
    LET right == hp[node].Right
    IN [queue |-> Append(queue, node),
        node |-> nil,
        heap |-> [hp EXCEPT ![right].Parent = node]]

\* the whole loop, run alone: lines 76-98
RECURSIVE root(_, _, _)
root(queue, hp, steps) ==
    IF Len(queue) = 1
    THEN [root |-> queue[1], heap |-> hp, steps |-> steps, panic |-> FALSE]
    ELSE IF Len(queue) < 2
    THEN [root |-> nil, heap |-> hp, steps |-> steps, panic |-> TRUE]
    ELSE LET l == rootLinkLeft(queue, hp)
             r == rootLinkRight(l.queue, l.node, l.heap)
         IN root(r.queue, r.heap, steps + 1)

-----------------------------------------------------------------------------
(* construct and NewTree, lines 41-73 *)

\* lines 50-60: one Leaf node per value
RECURSIVE hashLeaves(_, _)
hashLeaves(vs, hp) ==
    IF vs = <<>> THEN hp
    ELSE hashLeaves(Tail(vs), Append(hp, NewNode(nil, nil, nil, Leaf, Sum512(Head(vs)))))

\* a slip: an odd count is left as it is
padLeavesNever(vs, hp) == hp

\* lines 62-70: an odd count is padded with a fresh leaf of the last value
padLeaves(vs, hp) ==
    IF Len(hp) % 2 = 1
    THEN Append(hp, NewNode(nil, nil, nil, Leaf, Sum512(vs[Len(vs)])))
    ELSE hp

\* a slip: the list returned is the one from before the padding
constructUnpadded(vs) ==
    LET hp == padLeaves(vs, hashLeaves(vs, <<>>))
        r == root([i \in 1..Len(hp) |-> i], hp, 0)
    IN [Root |-> r.root, Leaves |-> [i \in 1..Len(vs) |-> i], heap |-> r.heap,
        steps |-> r.steps, panic |-> r.panic]

\* lines 49-73
construct(vs) ==
    LET hp == padLeaves(vs, hashLeaves(vs, <<>>))
        leaves == [i \in 1..Len(hp) |-> i]
        r == root(leaves, hp, 0)
    IN [Root |-> r.root, Leaves |-> leaves, heap |-> r.heap,
        steps |-> r.steps, panic |-> r.panic]

-----------------------------------------------------------------------------
(* Verify, run alone: lines 102-109 *)

Verify(tr, hp) ==
    LET r == root(tr.Leaves, hp, 0)
    IN BytesEqual(hp[tr.Root].Hash, r.heap[r.root].Hash)

-----------------------------------------------------------------------------
(* VerifyProof, lines 112-126 *)

PathPoint(hash, appended) == [Hash |-> hash, Appended |-> appended]

\* lines 116-122: one point of the path
verifyProofPoint(result, point) ==
    IF point.Appended
    THEN Sum512(result \o point.Hash)
    ELSE Sum512(point.Hash \o result)

RECURSIVE verifyProofFold(_, _)
verifyProofFold(result, path) ==
    IF path = <<>> THEN result
    ELSE verifyProofFold(verifyProofPoint(result, Head(path)), Tail(path))

VerifyProof(tr, hp, h, path) ==
    BytesEqual(hp[tr.Root].Hash, verifyProofFold(h, path))

-----------------------------------------------------------------------------
(* Proof, lines 134-175 *)

\* a slip: the last node of the list with that hash
RECURSIVE findNodeWithHashLast(_, _, _)
findNodeWithHashLast(nodes, h, hp) ==
    IF nodes = <<>> THEN nil
    ELSE IF BytesEqual(hp[nodes[Len(nodes)]].Hash, h) THEN nodes[Len(nodes)]
    ELSE findNodeWithHashLast(SubSeq(nodes, 1, Len(nodes) - 1), h, hp)

\* lines 168-175: the first node of the list with that hash, or nil
RECURSIVE findNodeWithHash(_, _, _)
findNodeWithHash(nodes, h, hp) ==
    IF nodes = <<>> THEN nil
    ELSE IF BytesEqual(hp[Head(nodes)].Hash, h) THEN Head(nodes)
    ELSE findNodeWithHash(Tail(nodes), h, hp)

\* a slip: the two branches record each other's flag
proofStepFlipped(current, parent, path, hp) ==
    [current |-> parent,
     parent |-> hp[parent].Parent,
     path |-> IF current = hp[parent].Left
              THEN Append(path, PathPoint(hp[hp[parent].Right].Hash, FALSE))
              ELSE Append(path, PathPoint(hp[hp[parent].Left].Hash, TRUE))]

\* lines 149-162: one iteration of the walk; the only read of a field that
\* root() writes is current.Parent at line 162
proofStep(current, parent, path, hp) ==
    [current |-> parent,
     parent |-> hp[parent].Parent,
     path |-> IF current = hp[parent].Left
              THEN Append(path, PathPoint(hp[hp[parent].Right].Hash, TRUE))
              ELSE Append(path, PathPoint(hp[hp[parent].Left].Hash, FALSE))]

RECURSIVE proofWalk(_, _, _, _)
proofWalk(current, parent, path, hp) ==
    IF parent = nil THEN path
    ELSE LET s == proofStep(current, parent, path, hp)
         IN proofWalk(s.current, s.parent, s.path, hp)

ErrNone == "nil"
ErrNoNode == "no node with such hash"

\* Proof run alone on a non-nil tree
Proof(tr, hp, h) ==
    LET current == findNodeWithHash(tr.Leaves, h, hp)
    IN IF current = nil
       THEN [path |-> <<>>, err |-> ErrNoNode]
       ELSE [path |-> proofWalk(current, hp[current].Parent, <<>>, hp), err |-> ErrNone]

-----------------------------------------------------------------------------
(* Callers.  A tree exists only once NewTree has returned it, so the nil   *)
(* receiver branches (lines 103-105 and 135-137) are never taken here.     *)

Callers == 1..NumCallers

Idle ==
    [op |-> "idle", pc |-> "idle", queue |-> <<>>, node |-> nil, h |-> <<>>,
     current |-> nil, parent |-> nil, path |-> <<>>, ret |-> "none"]

NoTree == [Root |-> nil, Leaves |-> <<>>]

\* the caller is not inside a call: its frame holds the last call's result
Between(c) == calls[c].pc \in {"idle", "done"}

Bool2Ret(b) == IF b THEN "true" ELSE "false"

\* the digests a caller may ask about: every stored one and one that is absent
Digests == {heap[n].Hash : n \in 1..Len(heap)} \cup {Sum512(Unused)}

Suffixes(s) == {SubSeq(s, i, Len(s)) : i \in 1..(Len(s) + 1)}

\* the paths a caller may hand to VerifyProof: the genuine proof of every leaf
\* and their suffixes (the empty path among them)
Paths ==
    UNION {Suffixes(proofWalk(tree.Leaves[i], heap[tree.Leaves[i]].Parent, <<>>, heap)) :
             i \in 1..Len(tree.Leaves)}

-----------------------------------------------------------------------------
(* Actions *)

\* NewTree(values), lines 41-47; indexing the empty queue panics
NewTree ==
    /\ status = "init"
    /\ LET t == construct(values)
       IN IF t.panic
          THEN /\ status' = "panic"
               /\ UNCHANGED <<heap, tree>>
          ELSE /\ status' = "built"
               /\ heap' = t.heap
               /\ tree' = [Root |-> t.Root, Leaves |-> t.Leaves]
    /\ UNCHANGED <<values, calls, verifies, corrupted>>

\* Verify, line 107: the queue is a copy of tree.Leaves
VerifyBegin(c) ==
    /\ status = "built"
    /\ Between(c)
    /\ verifies < MaxVerifies
    /\ calls' = [calls EXCEPT ![c] =
                   [Idle EXCEPT !.op = "Verify", !.pc = "loop", !.queue = tree.Leaves]]
    /\ verifies' = verifies + 1
    /\ UNCHANGED <<values, status, heap, tree, corrupted>>

\* root, lines 76-92
VerifyLinkLeft(c) ==
    /\ calls[c].op = "Verify"
    /\ calls[c].pc = "loop"
    /\ Len(calls[c].queue) # 1
    /\ LET l == rootLinkLeft(calls[c].queue, heap)
       IN /\ heap' = l.heap
          /\ calls' = [calls EXCEPT ![c].queue = l.queue, ![c].node = l.node,
                                    ![c].pc = "right"]
    /\ UNCHANGED <<values, status, tree, verifies, corrupted>>

\* root, lines 93-95
VerifyLinkRight(c) ==
    /\ calls[c].op = "Verify"
    /\ calls[c].pc = "right"
    /\ LET r == rootLinkRight(calls[c].queue, calls[c].node, heap)
       IN /\ heap' = r.heap
          /\ calls' = [calls EXCEPT ![c].queue = r.queue, ![c].node = r.node,
                                    ![c].pc = "loop"]
    /\ UNCHANGED <<values, status, tree, verifies, corrupted>>

\* root line 98 and Verify line 108
VerifyReturn(c) ==
    /\ calls[c].op = "Verify"
    /\ calls[c].pc = "loop"
    /\ Len(calls[c].queue) = 1
    /\ calls' = [calls EXCEPT
                   ![c].pc = "done",
                   ![c].ret = Bool2Ret(BytesEqual(heap[tree.Root].Hash,
                                                  heap[calls[c].queue[1]].Hash))]
    /\ UNCHANGED <<values, status, heap, tree, verifies, corrupted>>

\* Proof, lines 135-147
ProofBegin(c, h) ==
    /\ status = "built"
    /\ Between(c)
    /\ LET current == findNodeWithHash(tree.Leaves, h, heap)
       IN calls' = [calls EXCEPT ![c] =
            IF current = nil
            THEN [Idle EXCEPT !.op = "Proof", !.pc = "done", !.h = h, !.ret = ErrNoNode]
            ELSE [Idle EXCEPT !.op = "Proof", !.pc = "walk", !.h = h,
                              !.current = current, !.parent = heap[current].Parent]]
    /\ UNCHANGED <<values, status, heap, tree, verifies, corrupted>>

\* Proof, lines 148-163
ProofStep(c) ==
    /\ calls[c].op = "Proof"
    /\ calls[c].pc = "walk"
    /\ calls[c].parent # nil
    /\ LET s == proofStep(calls[c].current, calls[c].parent, calls[c].path, heap)
       IN calls' = [calls EXCEPT ![c].current = s.current, ![c].parent = s.parent,
                                 ![c].path = s.path]
    /\ UNCHANGED <<values, status, heap, tree, verifies, corrupted>>

\* Proof, line 165
ProofReturn(c) ==
    /\ calls[c].op = "Proof"
    /\ calls[c].pc = "walk"
    /\ calls[c].parent = nil
    /\ calls' = [calls EXCEPT ![c].pc = "done", ![c].ret = ErrNone]
    /\ UNCHANGED <<values, status, heap, tree, verifies, corrupted>>

\* VerifyProof, lines 112-126: it reads only tree.Root.Hash, once
VerifyProofCall(c, h, path) ==
    /\ status = "built"
    /\ Between(c)
    /\ calls' = [calls EXCEPT ![c] =
                   [Idle EXCEPT !.op = "VerifyProof", !.pc = "done", !.h = h,
                                !.path = path,
                                !.ret = Bool2Ret(VerifyProof(tree, heap, h, path))]]
    /\ UNCHANGED <<values, status, heap, tree, verifies, corrupted>>

\* the caller replays the path Proof gave it
VerifyProofReplay(c) ==
    /\ calls[c].op = "Proof"
    /\ calls[c].pc = "done"
    /\ calls[c].ret = ErrNone
    /\ VerifyProofCall(c, calls[c].h, calls[c].path)

\* the fields of Node are exported: a holder of the tree overwrites one stored Hash
Corrupt(n, d) ==
    /\ status = "built"
    /\ corrupted = nil
    /\ verifies = 0
    /\ \A c \in Callers : calls[c].op = "idle"
    /\ n \in 1..Len(heap)
    /\ d # heap[n].Hash
    /\ heap' = [heap EXCEPT ![n].Hash = d]
    /\ corrupted' = n
    /\ UNCHANGED <<values, status, tree, calls, verifies>>

Step(c) ==
    \/ VerifyBegin(c)
    \/ VerifyLinkLeft(c)
    \/ VerifyLinkRight(c)
    \/ VerifyReturn(c)
    \/ \E h \in Digests : ProofBegin(c, h)
    \/ ProofStep(c)
    \/ ProofReturn(c)
    \/ VerifyProofReplay(c)

-----------------------------------------------------------------------------
(* Specifications *)

InitWith(inputs) ==
    /\ values \in inputs
    /\ status = "init"
    /\ heap = <<>>
    /\ tree = NoTree
    /\ calls = [c \in Callers |-> Idle]
    /\ verifies = 0
    /\ corrupted = nil

\* one caller: calls never overlap
Init == InitWith(Inputs(MaxLen))
Next == NewTree \/ Step(1)
Spec == Init /\ [][Next]_vars

\* several callers share the tree: their steps interleave
InitShort == InitWith(Inputs(MaxShortLen))
NextConc == NewTree \/ \E c \in Callers : Step(c)
SpecConc == InitShort /\ [][NextConc]_vars

\* one caller, which may hand VerifyProof any digest and any path
NextAny == Next \/ \E h \in Digests : \E path \in Paths : VerifyProofCall(1, h, path)
SpecAny == InitShort /\ [][NextAny]_vars

\* one caller, and one stored Hash may be overwritten before the calls
NextCorrupt == Next \/ \E n \in 1..Len(heap) : \E d \in Digests : Corrupt(n, d)
SpecCorrupt == InitShort /\ [][NextCorrupt]_vars

-----------------------------------------------------------------------------
(* Vocabulary of the properties *)

Built == status = "built"

\* the tree and heap as NewTree(values) leaves them
Fresh == construct(values)
FreshTree == [Root |-> Fresh.Root, Leaves |-> Fresh.Leaves]

LeafDigests == {heap[tree.Leaves[i]].Hash : i \in 1..Len(tree.Leaves)}

PaddedLen(n) == n + (n % 2)

Finished(c, op) == calls[c].op = op /\ calls[c].pc = "done"

\* the first entry of Leaves, in list order, whose Hash is h; nil when there is none
FirstLeaf(h) ==
    LET I == {i \in 1..Len(tree.Leaves) : heap[tree.Leaves[i]].Hash = h}
    IN IF I = {} THEN nil ELSE tree.Leaves[CHOOSE i \in I : \A j \in I : i <= j]

\* a node followed by its parent, its parent's parent, ... up to the node without one
RECURSIVE ParentChain(_)
ParentChain(n) ==
    IF heap[n].Parent = nil THEN <<n>> ELSE <<n>> \o ParentChain(heap[n].Parent)

\* the sibling digests along the parent chain of n, each with the side n's branch is on
ChainPath(n) ==
    LET chain == ParentChain(n)
    IN [k \in 1..(Len(chain) - 1) |->
          IF heap[chain[k + 1]].Left = chain[k]
          THEN PathPoint(heap[heap[chain[k + 1]].Right].Hash, TRUE)
          ELSE PathPoint(heap[heap[chain[k + 1]].Left].Hash, FALSE)]

-----------------------------------------------------------------------------
(* Properties *)

\* C1: for every non-empty value sequence, every Verify call on the tree built
\* from it returns true, and so does Verify run alone in any state between calls.
C1_VerifyTrue ==
    Built =>
      /\ \A c \in Callers : Finished(c, "Verify") => calls[c].ret = "true"
      /\ (\A c \in Callers : Between(c)) => Verify(tree, heap)

C1_Witness ==
    /\ Len(values) = 5
    /\ Len(tree.Leaves) = 6
    /\ Finished(1, "Verify")
    /\ calls[1].ret = "true"

\* C2: for every digest of an entry of Leaves, Proof returns a path without error
\* and VerifyProof of that digest and that path returns true.
C2_ProofVerifies ==
    Built =>
      \A c \in Callers :
        /\ (Finished(c, "Proof") /\ calls[c].h \in LeafDigests) =>
              /\ calls[c].ret = ErrNone
              /\ VerifyProof(tree, heap, calls[c].h, calls[c].path)
        /\ (Finished(c, "VerifyProof") /\ calls[c].h \in LeafDigests) =>
              calls[c].ret = "true"

\* six leaves: the leaf replayed sits two levels below the root, others three
C2_Witness ==
    /\ Len(tree.Leaves) = 6
    /\ Finished(1, "VerifyProof")
    /\ calls[1].ret = "true"
    /\ Len(calls[1].path) = 2
    /\ \E h \in LeafDigests : Len(Proof(tree, heap, h).path) = 3

\* C3: no public operation mutates a built tree: between calls every node that
\* NewTree allocated has the Hash, Typ, Left, Right and Parent it had then.
C3_NeverMutated ==
    (Built /\ \A c \in Callers : Between(c)) =>
      \A n \in 1..Len(Fresh.heap) : heap[n] = Fresh.heap[n]

\* C4: on a tree of four or more leaves, Proof interleaved with Verify calls
\* returns the path it returns alone, that path verifies, and every Verify
\* returns true.
C4_ConcurrentReads ==
    (Built /\ Len(tree.Leaves) >= 4) =>
      \A c \in Callers :
        /\ (Finished(c, "Proof") /\ calls[c].h \in LeafDigests) =>
              /\ calls[c].path = Proof(FreshTree, Fresh.heap, calls[c].h).path
              /\ VerifyProof(tree, heap, calls[c].h, calls[c].path)
        /\ Finished(c, "Verify") => calls[c].ret = "true"

\* C5: whenever VerifyProof returns true for a digest and a path, the digest is
\* the digest of one of the tree's Leaves.
C5_ProofSound ==
    Built =>
      \A c \in Callers :
        (Finished(c, "VerifyProof") /\ calls[c].ret = "true") =>
          calls[c].h \in LeafDigests

\* C6: once the stored Hash of a single node has been replaced by a different
\* digest, Verify returns false.
C6_DetectsCorruption ==
    (Built /\ corrupted # nil) =>
      \A c \in Callers : Finished(c, "Verify") => calls[c].ret = "false"

\* C7: two non-empty value sequences give the same root digest only if they
\* are the same sequence.
C7_RootCommits ==
    Built =>
      \A w \in Inputs(MaxLen) :
        (w # <<>> /\ heap[tree.Root].Hash = construct(w).heap[construct(w).Root].Hash)
          => w = values

\* C8: NewTree fails exactly on the empty input; for N >= 1 values the reduction
\* makes M - 1 combinations, M = N + (N mod 2), Leaves has M entries and Root is
\* a TreeNode without Parent.
C8_NewTreeShape ==
    /\ status = "panic" <=> (status # "init" /\ Len(values) = 0)
    /\ Built =>
         LET M == PaddedLen(Len(values))
         IN /\ Fresh.steps = M - 1
            /\ Len(Fresh.heap) = M + (M - 1)
            /\ Len(tree.Leaves) = M
            /\ \A i \in 1..M : heap[tree.Leaves[i]].Typ = Leaf
            /\ tree.Root # nil
            /\ heap[tree.Root].Typ = TreeNode
            /\ heap[tree.Root].Parent = nil

C8_Witness ==
    /\ Built
    /\ Len(values) = 5
    /\ Len(tree.Leaves) = 6
    /\ Fresh.steps = 5

\* C9: Proof walks the parent chain of the first entry of Leaves whose Hash is
\* the digest asked for, and returns the 'no node with such hash' error and no
\* path exactly when no entry of Leaves has that Hash.
C9_FirstMatch ==
    Built =>
      \A c \in Callers :
        /\ Finished(c, "Proof") =>
              /\ calls[c].ret = ErrNoNode <=> calls[c].h \notin LeafDigests
              /\ calls[c].ret = ErrNoNode => calls[c].path = <<>>
              /\ calls[c].ret # ErrNoNode =>
                    /\ calls[c].ret = ErrNone
                    /\ calls[c].path = ChainPath(FirstLeaf(calls[c].h))
        /\ (Finished(c, "Proof") /\ values = <<A, B, AB>> /\ calls[c].h = Sum512(AB)) =>
              calls[c].path[1] = PathPoint(Sum512(AB), TRUE)

\* V = [a, b, c]: the digest of c is also the padding leaf's; the original leaf is used
C9_Witness ==
    /\ values = <<A, B, AB>>
    /\ Finished(1, "Proof")
    /\ calls[1].h = Sum512(AB)
    /\ calls[1].ret = ErrNone
    /\ Len(calls[1].path) = 2
    /\ calls[1].path[1] = PathPoint(Sum512(AB), TRUE)

\* C10: in every state reached by completed, non-overlapping Verify calls, Proof
\* of every leaf digest returns the points it returned right after construction,
\* that path verifies, and Verify returns true.
C10_StableAcrossVerify ==
    Built =>
      /\ (\A c \in Callers : Between(c)) =>
            /\ Verify(tree, heap)
            /\ \A h \in LeafDigests :
                 /\ Proof(tree, heap, h).err = ErrNone
                 /\ Proof(tree, heap, h).path = Proof(FreshTree, Fresh.heap, h).path
                 /\ VerifyProof(tree, heap, h, Proof(tree, heap, h).path)
      /\ \A c \in Callers :
            /\ (Finished(c, "Proof") /\ calls[c].h \in LeafDigests) =>
                  calls[c].path = Proof(FreshTree, Fresh.heap, calls[c].h).path
            /\ Finished(c, "Verify") => calls[c].ret = "true"

C10_Witness ==
    /\ verifies = MaxVerifies
    /\ Len(tree.Leaves) = 6
    /\ Finished(1, "Proof")
    /\ calls[1].ret = ErrNone
    /\ Len(calls[1].path) = 3
    /\ heap[tree.Leaves[1]].Parent # Fresh.heap[tree.Leaves[1]].Parent

====
